---- MODULE Spec2Model ----
(***************************************************************************)
(* SafeTransit Padova: the Telegram bot's handlers (src/telegram_bot.py)   *)
(* and the web form's "Submit Report" handler with its safety score        *)
(* (src/app.py).                                                           *)
(*                                                                         *)
(* Scores are kept in tenths (5.0 is 50, -0.5 is -5): every modifier is a  *)
(* multiple of 0.5, so the float arithmetic of the source is exact.        *)
(* datetime.now() is a logical clock that advances each time it is read.   *)
(***************************************************************************)
EXTENDS Integers, Sequences, FiniteSets, TLC

\* ---------------------------------------------------------------- bounds
MaxStarts == 2    \* conversations started, all users together
MaxClock == 2     \* readings of datetime.now()
MaxCommands == 1  \* /start, /help, /emergency and /cancel updates handled

\* ------------------------------------------------------- program constants
\* telegram_bot.py:17  LOCATION, CROWD_LEVEL, SAFETY_CONCERNS, ADDITIONAL_INFO = range(4)
LOCATION == 0
CROWD_LEVEL == 1
SAFETY_CONCERNS == 2
ADDITIONAL_INFO == 3
\* ConversationHandler.END: the conversation is over, its key has no state
END == -1

\* app.py:41-47  the stop registry handed to the bot as bus_stops
bus_stops ==
    {"Stazione FS", "Prato della Valle", "Basilica del Santo",
     "Piazza delle Erbe", "Ospedale"}

\* the reply keyboards / widget options
CrowdLevels == {"Low", "Medium", "High"}
ConcernOptions == <<"None", "Poor Lighting", "Suspicious Activity", "Technical Issues">>
Concerns == {ConcernOptions[i] : i \in 1..Len(ConcernOptions)}

\* Two chat users.
Users == {1, 2}

\* The ConversationHandler of lines 192-204 takes the defaults per_chat and
\* per_user, so it keeps one state per <<chat id, user id>>, while
\* context.user_data is one dict per user id.  User 1 writes in the private
\* chat 1 and in the group 77, user 2 in the group 77: two users, one chat
\* with two users, and one user with two conversations.
Keys == {<<1, 1>>, <<77, 1>>, <<77, 2>>}
ChatOf(k) == k[1]
UserOf(k) == k[2]
Chats == {ChatOf(k) : k \in Keys}

\* Message texts (filters.TEXT & ~filters.COMMAND) tried at each step: a
\* value of the step's keyboard and a text that is on no keyboard.  No
\* handler looks at the text it stores, so two texts tell every case apart;
\* the additional info is free text, one text stands for all.
LocationTexts == {"Ospedale", "hello"}
CrowdTexts == {"Low", "hello"}
ConcernTexts == {"Suspicious Activity", "hello"}
InfoTexts == {"none"}
Texts == LocationTexts \cup CrowdTexts \cup ConcernTexts \cup InfoTexts

States == {LOCATION, CROWD_LEVEL, SAFETY_CONCERNS, ADDITIONAL_INFO}
RequiredKeys == {"location", "crowd_level", "safety_concerns"}

VARIABLES
    query_engine,   \* TRUE iff an analysis collaborator is configured
    state,          \* state[k]: ConversationHandler's state of the key k
    user_data,      \* user_data[u]: context.user_data, a dict (partial function)
    reports,        \* self.reports
    queries,        \* the aquery calls the bot made, in order
    replies,        \* replies[c]: the last message the bot sent to the chat c
    pending,        \* <<>> or <<call>>: the handler suspended in `await aquery`
    clock,          \* datetime.now()
    form,           \* the web form's widgets
    web,            \* what the last run of the web script did with the form
    conv,           \* history: conv[k], the texts supplied in this conversation
    nstarts,        \* history: conversations started so far
    ncommands,      \* history: /start, /help, /emergency, /cancel handled so far
    cancelled       \* history: <<k>> when the last update handled was k's /cancel

vars == <<query_engine, state, user_data, reports, queries, replies, pending,
          clock, form, web, conv, nstarts, ncommands, cancelled>>
webvars == <<form, web>>

NoDict == [k \in {} |-> 0]
NoWeb == [run |-> "none"]

\* telegram_bot.py:20-24 __init__ ; app.py:138 query_engine may be None
Init ==
    /\ query_engine \in BOOLEAN
    /\ state = [k \in Keys |-> END]
    /\ user_data = [u \in Users |-> NoDict]
    /\ reports = <<>>
    /\ queries = <<>>
    /\ replies = [c \in Chats |-> [kind |-> "none"]]
    /\ pending = <<>>
    /\ clock = 0
    /\ form = [location |-> "Stazione FS", delay |-> 0, crowd |-> "Medium",
               safety_concerns |-> <<>>, additional_info |-> ""]
    /\ web = NoWeb
    /\ conv = [k \in Keys |-> <<>>]
    /\ nstarts = 0
    /\ ncommands = 0
    /\ cancelled = <<>>

\* d[k] = v on a dict
SetItem(d, k, v) == (k :> v) @@ d

\* An update is dispatched only when no handler is suspended: the
\* Application processes updates one at a time.
Idle == pending = <<>>

\* ------------------------------------------------------------ messages
\* telegram_bot.py:35-52, 56-65
WelcomeMessage == [kind |-> "other", text |-> "Welcome to SafeTransit Padova!"]
HelpText == [kind |-> "other", text |-> "Available commands:"]
\* telegram_bot.py:167-185: with an engine its answer is added to the text
EmergencyMessage(recommendations) ==
    [kind |-> "other", text |-> "EMERGENCY MODE ACTIVATED!",
     recommendations |-> recommendations]
\* telegram_bot.py:177-179
EmergencyQuery ==
    [question |-> "What are the immediate steps to take in a transit emergency?"]

AskLocation == [kind |-> "ask_location", keyboard |-> bus_stops]
AskCrowdLevel == [kind |-> "ask_crowd_level", keyboard |-> CrowdLevels]
AskSafetyConcerns == [kind |-> "ask_safety_concerns", keyboard |-> Concerns]
AskAdditionalInfo == [kind |-> "ask_additional_info"]

\* telegram_bot.py:139-147: the confirmation text; analysis "" adds nothing
Confirmation(d, analysis) ==
    [kind |-> "confirmation",
     location |-> d["location"],
     crowd_level |-> d["crowd_level"],
     safety_concerns |-> d["safety_concerns"],
     analysis |-> analysis]

\* telegram_bot.py:157-161: the query sent for a report
AnalysisQuery(report_data) ==
    [location |-> report_data.location,
     crowd_level |-> report_data.crowd_level,
     safety_concerns |-> report_data.safety_concerns]

\* ------------------------------------------------- the bot's handlers
\* CommandHandler("start"), registered before the conversation handler: it
\* takes /start whatever the state of a conversation
start(c) ==
    /\ Idle
    /\ ncommands < MaxCommands
    /\ ncommands' = ncommands + 1
    /\ replies' = [replies EXCEPT ![c] = WelcomeMessage]
    /\ cancelled' = <<>>
    /\ UNCHANGED <<query_engine, state, user_data, reports, queries, pending,
                   clock, webvars, conv, nstarts>>

\* CommandHandler("help")
help_command(c) ==
    /\ Idle
    /\ ncommands < MaxCommands
    /\ ncommands' = ncommands + 1
    /\ replies' = [replies EXCEPT ![c] = HelpText]
    /\ cancelled' = <<>>
    /\ UNCHANGED <<query_engine, state, user_data, reports, queries, pending,
                   clock, webvars, conv, nstarts>>

\* CommandHandler("emergency") up to its first suspension: with a query
\* engine the handler stops in `await aquery`, without one it replies
emergency(c) ==
    /\ Idle
    /\ ncommands < MaxCommands
    /\ ncommands' = ncommands + 1
    /\ cancelled' = <<>>
    /\ IF query_engine
       THEN /\ queries' = Append(queries, EmergencyQuery)
            /\ pending' = <<[handler |-> "emergency", chat |-> c]>>
            /\ UNCHANGED replies
       ELSE /\ replies' = [replies EXCEPT ![c] = EmergencyMessage(<<>>)]
            /\ UNCHANGED <<queries, pending>>
    /\ UNCHANGED <<query_engine, state, user_data, reports, clock, webvars,
                   conv, nstarts>>

\* aquery returns to emergency: lines 180-185 run
emergency_returns(response) ==
    /\ pending # <<>>
    /\ pending[1].handler = "emergency"
    /\ replies' = [replies EXCEPT ![pending[1].chat] = EmergencyMessage(<<response>>)]
    /\ pending' = <<>>
    /\ UNCHANGED <<query_engine, state, user_data, reports, queries, clock,
                   webvars, conv, nstarts, ncommands, cancelled>>

\* aquery raises in emergency: the handler ends at line 177, nothing is sent
emergency_raises ==
    /\ pending # <<>>
    /\ pending[1].handler = "emergency"
    /\ pending' = <<>>
    /\ UNCHANGED <<query_engine, state, user_data, reports, queries, replies,
                   clock, webvars, conv, nstarts, ncommands, cancelled>>

\* entry point CommandHandler('report'): only for a key with no conversation
start_report(k) ==
    /\ Idle
    /\ state[k] = END
    /\ nstarts < MaxStarts
    /\ nstarts' = nstarts + 1
    /\ state' = [state EXCEPT ![k] = LOCATION]
    /\ replies' = [replies EXCEPT ![ChatOf(k)] = AskLocation]
    /\ conv' = [conv EXCEPT ![k] = <<>>]
    /\ cancelled' = <<>>
    /\ UNCHANGED <<query_engine, user_data, reports, queries, pending, clock,
                   webvars, ncommands>>

\* entry point CallbackQueryHandler(pattern '^report$'): for a callback query
\* update.message is None, so start_report raises at reply_text and the
\* conversation does not start; inside a conversation the update matches no
\* handler.  Either way nothing changes.
report_callback(k) ==
    /\ Idle
    /\ UNCHANGED vars

\* updates no handler takes: a text outside a conversation, /report inside
\* one (no allow_reentry), /cancel outside one
unhandled(k, t) ==
    /\ Idle
    /\ \/ t \in Texts /\ state[k] = END
       \/ t = "/report" /\ state[k] # END
       \/ t = "/cancel" /\ state[k] = END
    /\ UNCHANGED vars

\* mutant: one dict shared by all users instead of one per user
process_location_shared(k, t) ==
    /\ Idle
    /\ state[k] = LOCATION
    /\ user_data' = [v \in Users |-> SetItem(user_data[v], "location", t)]
    /\ replies' = [replies EXCEPT ![ChatOf(k)] = AskCrowdLevel]
    /\ state' = [state EXCEPT ![k] = CROWD_LEVEL]
    /\ conv' = [conv EXCEPT ![k] = Append(@, t)]
    /\ cancelled' = <<>>
    /\ UNCHANGED <<query_engine, reports, queries, pending, clock, webvars,
                   nstarts, ncommands>>

process_location(k, t) ==
    /\ Idle
    /\ state[k] = LOCATION
    /\ user_data' = [user_data EXCEPT ![UserOf(k)] = SetItem(@, "location", t)]
    /\ replies' = [replies EXCEPT ![ChatOf(k)] = AskCrowdLevel]
    /\ state' = [state EXCEPT ![k] = CROWD_LEVEL]
    /\ conv' = [conv EXCEPT ![k] = Append(@, t)]
    /\ cancelled' = <<>>
    /\ UNCHANGED <<query_engine, reports, queries, pending, clock, webvars,
                   nstarts, ncommands>>

\* mutant: the handler returns the state after the next one
process_crowd_level_skips(k, t) ==
    /\ Idle
    /\ state[k] = CROWD_LEVEL
    /\ user_data' = [user_data EXCEPT ![UserOf(k)] = SetItem(@, "crowd_level", t)]
    /\ replies' = [replies EXCEPT ![ChatOf(k)] = AskSafetyConcerns]
    /\ state' = [state EXCEPT ![k] = ADDITIONAL_INFO]
    /\ conv' = [conv EXCEPT ![k] = Append(@, t)]
    /\ cancelled' = <<>>
    /\ UNCHANGED <<query_engine, reports, queries, pending, clock, webvars,
                   nstarts, ncommands>>

process_crowd_level(k, t) ==
    /\ Idle
    /\ state[k] = CROWD_LEVEL
    /\ user_data' = [user_data EXCEPT ![UserOf(k)] = SetItem(@, "crowd_level", t)]
    /\ replies' = [replies EXCEPT ![ChatOf(k)] = AskSafetyConcerns]
    /\ state' = [state EXCEPT ![k] = SAFETY_CONCERNS]
    /\ conv' = [conv EXCEPT ![k] = Append(@, t)]
    /\ cancelled' = <<>>
    /\ UNCHANGED <<query_engine, reports, queries, pending, clock, webvars,
                   nstarts, ncommands>>

process_safety_concerns(k, t) ==
    /\ Idle
    /\ state[k] = SAFETY_CONCERNS
    /\ user_data' = [user_data EXCEPT ![UserOf(k)] =
                       SetItem(@, "safety_concerns", <<t>>)]
    /\ replies' = [replies EXCEPT ![ChatOf(k)] = AskAdditionalInfo]
    /\ state' = [state EXCEPT ![k] = ADDITIONAL_INFO]
    /\ conv' = [conv EXCEPT ![k] = Append(@, t)]
    /\ cancelled' = <<>>
    /\ UNCHANGED <<query_engine, reports, queries, pending, clock, webvars,
                   nstarts, ncommands>>

\* telegram_bot.py:124-129
ReportData(d) ==
    [location |-> d["location"],
     crowd_level |-> d["crowd_level"],
     safety_concerns |-> d["safety_concerns"],
     timestamp |-> d["timestamp"]]

\* complete_report up to its first suspension: with a query engine the
\* handler stops in `await aquery` (the call may fail or never return);
\* without one it runs to the end.  A missing key raises KeyError at line
\* 125 and the handler ends there, the state unchanged.
complete_report(k, t) ==
    /\ Idle
    /\ state[k] = ADDITIONAL_INFO
    /\ clock < MaxClock
    /\ clock' = clock + 1
    /\ conv' = [conv EXCEPT ![k] = Append(@, t)]
    /\ cancelled' = <<>>
    /\ LET d == SetItem(SetItem(user_data[UserOf(k)], "additional_info", t),
                        "timestamp", clock')
       IN /\ user_data' = [user_data EXCEPT ![UserOf(k)] = d]
          /\ IF RequiredKeys \subseteq DOMAIN d
             THEN /\ reports' = Append(reports, ReportData(d))
                  /\ IF query_engine
                     THEN /\ queries' = Append(queries, AnalysisQuery(ReportData(d)))
                          /\ pending' = <<[handler |-> "complete_report",
                                           key |-> k,
                                           report |-> ReportData(d)]>>
                          /\ UNCHANGED <<state, replies>>
                     ELSE /\ replies' = [replies EXCEPT ![ChatOf(k)] =
                                            Confirmation(d, "")]
                          /\ state' = [state EXCEPT ![k] = END]
                          /\ UNCHANGED <<queries, pending>>
             ELSE UNCHANGED <<reports, queries, pending, state, replies>>
    /\ UNCHANGED <<query_engine, webvars, nstarts, ncommands>>

\* aquery returns to complete_report: lines 139-150 run
analysis_returns(response) ==
    /\ pending # <<>>
    /\ pending[1].handler = "complete_report"
    /\ LET k == pending[1].key
       IN /\ replies' = [replies EXCEPT ![ChatOf(k)] =
                            Confirmation(user_data[UserOf(k)], response)]
          /\ state' = [state EXCEPT ![k] = END]
    /\ pending' = <<>>
    /\ UNCHANGED <<query_engine, user_data, reports, queries, clock, webvars, conv,
                   nstarts, ncommands, cancelled>>

\* mutant: the failed analysis takes the stored report back
analysis_raises_rolls_back ==
    /\ pending # <<>>
    /\ pending[1].handler = "complete_report"
    /\ pending' = <<>>
    /\ reports' = SubSeq(reports, 1, Len(reports) - 1)
    /\ UNCHANGED <<query_engine, state, user_data, queries, replies,
                   clock, webvars, conv, nstarts, ncommands, cancelled>>

\* aquery raises: nothing catches it, complete_report ends at line 137 and
\* the ConversationHandler keeps the state of the key
analysis_raises ==
    /\ pending # <<>>
    /\ pending[1].handler = "complete_report"
    /\ pending' = <<>>
    /\ UNCHANGED <<query_engine, state, user_data, reports, queries, replies,
                   clock, webvars, conv, nstarts, ncommands, cancelled>>

\* fallbacks=[CommandHandler('cancel', lambda u, c: ConversationHandler.END)]
\* The callback is a plain lambda, not a coroutine function: the handler
\* awaits what it returns, the int -1, and that raises TypeError.  No state
\* reaches the ConversationHandler, so the conversation stays where it is.
cancel(k) ==
    /\ Idle
    /\ state[k] \in States
    /\ ncommands < MaxCommands
    /\ ncommands' = ncommands + 1
    /\ cancelled' = <<k>>
    /\ UNCHANGED <<query_engine, state, user_data, reports, queries, replies,
                   pending, clock, webvars, conv, nstarts>>

\* ----------------------------------------------- the web form (app.py)
\* app.py:101-114, in tenths
base_score == 50
crowd_level_modifiers == [c \in CrowdLevels |->
    CASE c = "Low" -> 0
      [] c = "Medium" -> -5
      [] c = "High" -> -10]
safety_concerns_modifiers == [c \in Concerns |->
    CASE c = "None" -> 0
      [] c = "Poor Lighting" -> -10
      [] c = "Suspicious Activity" -> -20
      [] c = "Technical Issues" -> -5]

Max(a, b) == IF a >= b THEN a ELSE b
Min(a, b) == IF a <= b THEN a ELSE b

\* app.py:120-122: the loop over the list of concerns, in list order
RECURSIVE ApplyConcerns(_, _)
ApplyConcerns(score, concerns) ==
    IF concerns = <<>> THEN score
    ELSE LET concern == Head(concerns)
         IN ApplyConcerns(
                IF concern \in DOMAIN safety_concerns_modifiers
                THEN score + safety_concerns_modifiers[concern]
                ELSE score,
                Tail(concerns))

\* mutant: the loop stops after the first concern
calculate_safety_score_first_only(report_data) ==
    LET score == base_score + crowd_level_modifiers[report_data.crowd_level]
        first == SubSeq(report_data.safety_concerns, 1,
                        Min(1, Len(report_data.safety_concerns)))
    IN Max(10, Min(50, ApplyConcerns(score, first)))

\* mutant: the lower bound is not applied
calculate_safety_score_no_floor(report_data) ==
    LET score == base_score + crowd_level_modifiers[report_data.crowd_level]
    IN Min(50, ApplyConcerns(score, report_data.safety_concerns))

\* app.py:99-125
calculate_safety_score(report_data) ==
    LET score == base_score + crowd_level_modifiers[report_data.crowd_level]
    IN Max(10, Min(50, ApplyConcerns(score, report_data.safety_concerns)))

\* st.number_input(min_value=0, max_value=60): the two ends
Delays == {0, 60}
\* st.text_area
InfoAreas == {"", "broken lamp"}

Responses == {"", "analysis"}
\* what a call of the query engine does: it answers or it raises
QueryOutcomes == {<<"ok", r>> : r \in Responses} \cup {<<"raise", "">>}

botvars == <<state, user_data, reports, queries, replies, pending, conv, nstarts,
            ncommands, cancelled>>

\* A widget event: Streamlit reruns main with "Submit Report" not pressed,
\* so the previous run's report_data and messages are gone.
Rerun(widgets) ==
    /\ form' = widgets
    /\ web' = NoWeb
    /\ UNCHANGED <<query_engine, clock, botvars>>

\* app.py:218
select_location(location) ==
    /\ location # form.location
    /\ Rerun([form EXCEPT !.location = location])
\* app.py:219
input_delay(delay) ==
    /\ delay # form.delay
    /\ Rerun([form EXCEPT !.delay = delay])
\* app.py:220-224
slide_crowd(crowd) ==
    /\ crowd # form.crowd
    /\ Rerun([form EXCEPT !.crowd = crowd])
\* app.py:227-230: st.multiselect keeps the options in the order chosen
select_concern(concern) ==
    /\ \A i \in DOMAIN form.safety_concerns : form.safety_concerns[i] # concern
    /\ Rerun([form EXCEPT !.safety_concerns = Append(@, concern)])
deselect_concern(concern) ==
    /\ \E i \in DOMAIN form.safety_concerns : form.safety_concerns[i] = concern
    /\ Rerun([form EXCEPT !.safety_concerns =
                 SelectSeq(@, LAMBDA c : c # concern)])
\* app.py:232
edit_additional_info(text) ==
    /\ text # form.additional_info
    /\ Rerun([form EXCEPT !.additional_info = text])
\* app.py:145, 202, 263, 279, 286-290: a widget outside the report form
\* (the language selector, the other buttons, From, To) reruns main too
other_widget == Rerun(form)

\* app.py:234-256, the run of main with "Submit Report" pressed.
\* report_data is a local of main: the run keeps it nowhere.
submit_report(outcome) ==
    /\ clock < MaxClock
    /\ clock' = clock + 1
    /\ LET data == [location |-> form.location,
                    delay_minutes |-> form.delay,
                    crowd_level |-> form.crowd,
                    safety_concerns |-> form.safety_concerns,
                    additional_info |-> form.additional_info,
                    timestamp |-> clock']
           report_data == [k \in DOMAIN data \cup {"safety_score"} |->
                             IF k = "safety_score"
                             THEN calculate_safety_score(data) ELSE data[k]]
       IN IF query_engine
          THEN /\ outcome \in QueryOutcomes
               /\ web' = [run |-> "submit",
                          report_data |-> report_data,
                          query |-> <<AnalysisQuery(report_data)>>,
                          success |-> outcome[1] = "ok",
                          analysis |-> IF outcome[1] = "ok"
                                       THEN <<outcome[2]>> ELSE <<>>]
          ELSE /\ outcome = <<"none", "">>
               /\ web' = [run |-> "submit",
                          report_data |-> report_data,
                          query |-> <<>>,
                          success |-> TRUE,
                          analysis |-> <<>>]
    /\ UNCHANGED <<query_engine, form, botvars>>

WebNext ==
    \/ \E location \in bus_stops : select_location(location)
    \/ \E delay \in Delays : input_delay(delay)
    \/ \E crowd \in CrowdLevels : slide_crowd(crowd)
    \/ \E concern \in Concerns : select_concern(concern)
    \/ \E concern \in Concerns : deselect_concern(concern)
    \/ \E text \in InfoAreas : edit_additional_info(text)
    \/ other_widget
    \/ \E outcome \in QueryOutcomes \cup {<<"none", "">>} : submit_report(outcome)

WebSpec == Init /\ [][WebNext]_vars

Next ==
    \/ \E c \in Chats : start(c)
    \/ \E c \in Chats : help_command(c)
    \/ \E c \in Chats : emergency(c)
    \/ \E response \in Responses : emergency_returns(response)
    \/ emergency_raises
    \/ \E k \in Keys : start_report(k)
    \/ \E k \in Keys : report_callback(k)
    \/ \E k \in Keys, t \in LocationTexts \cup {"/report", "/cancel"} : unhandled(k, t)
    \/ \E k \in Keys, t \in LocationTexts : process_location(k, t)
    \/ \E k \in Keys, t \in CrowdTexts : process_crowd_level(k, t)
    \/ \E k \in Keys, t \in ConcernTexts : process_safety_concerns(k, t)
    \/ \E k \in Keys, t \in InfoTexts : complete_report(k, t)
    \/ \E response \in Responses : analysis_returns(response)
    \/ analysis_raises
    \/ \E k \in Keys : cancel(k)

Spec == Init /\ [][Next]_vars

\* telegram_bot.py:187-213: run_polling hands every update it receives to
\* its handler, so the steps of the seven registered callbacks are fair;
\* nothing makes the query engine answer, so the steps that end an aquery
\* call are not.
Handlers ==
    \/ \E c \in Chats : start(c)
    \/ \E c \in Chats : help_command(c)
    \/ \E c \in Chats : emergency(c)
    \/ \E k \in Keys : start_report(k)
    \/ \E k \in Keys, t \in LocationTexts : process_location(k, t)
    \/ \E k \in Keys, t \in CrowdTexts : process_crowd_level(k, t)
    \/ \E k \in Keys, t \in ConcernTexts : process_safety_concerns(k, t)
    \/ \E k \in Keys, t \in InfoTexts : complete_report(k, t)
    \/ \E k \in Keys : cancel(k)

FairSpec == Spec /\ WF_vars(Handlers)
\* ------------------------------------------------------------- claims
Range(seq) == {seq[i] : i \in DOMAIN seq}

\* the text supplied to the conversation k in this step, if the step takes one
Supplies(k) == Len(conv'[k]) = Len(conv[k]) + 1
Supplied(k) == conv'[k][Len(conv'[k])]

\* the conversation k took its four texts
FourthSupplied(k) == Len(conv[k]) >= 4
ValidInputs(k) ==
    /\ conv[k][1] \in bus_stops
    /\ conv[k][2] \in CrowdLevels
    /\ conv[k][3] \in Concerns

\* C1 (as claimed): once a session has supplied four valid inputs and its
\* handler has run, the session is Complete after exactly those four
\* transitions and the store holds a record whose location, crowd level,
\* safety concerns and additional info are the four inputs.
C1_ValidSequenceRecord ==
    \A k \in Keys :
        (FourthSupplied(k) /\ ValidInputs(k) /\ pending = <<>>) =>
            /\ state[k] = END
            /\ Len(conv[k]) = 4
            /\ \E i \in DOMAIN reports :
                /\ reports[i].location = conv[k][1]
                /\ reports[i].crowd_level = conv[k][2]
                /\ reports[i].safety_concerns = <<conv[k][3]>>
                /\ "additional_info" \in DOMAIN reports[i]
                /\ reports[i]["additional_info"] = conv[k][4]

Accepted(st) ==
    CASE st = LOCATION -> bus_stops
      [] st = CROWD_LEVEL -> CrowdLevels
      [] st = SAFETY_CONCERNS -> Concerns
Prompt(st) ==
    CASE st = LOCATION -> AskLocation
      [] st = CROWD_LEVEL -> AskCrowdLevel
      [] st = SAFETY_CONCERNS -> AskSafetyConcerns

\* C2 (as claimed): a text outside the accepted domain of the state it is
\* sent in leaves the step pointer and the partial record as they were and
\* is answered by the same state's prompt.
C2_InvalidInputRejected ==
    [][\A k \in Keys :
        (/\ state[k] \in {LOCATION, CROWD_LEVEL, SAFETY_CONCERNS}
         /\ Supplies(k)
         /\ Supplied(k) \notin Accepted(state[k])) =>
            /\ state'[k] = state[k]
            /\ user_data'[UserOf(k)] = user_data[UserOf(k)]
            /\ replies'[ChatOf(k)] = Prompt(state[k])]_vars

\* C3 (as claimed): every stored record has a location of the stop
\* registry, a crowd level of {Low, Medium, High} and concerns of the four
\* concern values.
C3_StoredRecordsValid ==
    \A i \in DOMAIN reports :
        /\ reports[i].location \in bus_stops
        /\ reports[i].crowd_level \in CrowdLevels
        /\ Range(reports[i].safety_concerns) \subseteq Concerns

\* C4 (as claimed): once /cancel has been handled in a non-terminal state
\* the session is back at AwaitingLocation, and the step that handles it
\* leaves the store and the queries sent unchanged.
C4_CancelBackToLocation ==
    /\ [](\A k \in Keys : cancelled = <<k>> => state[k] = LOCATION)
    /\ [][\A k \in Keys :
           (cancelled' = <<k>> /\ ncommands' = ncommands + 1) =>
               /\ reports' = reports
               /\ queries' = queries]_vars

\* ---- the safety score as the claim words it
ClaimCrowdModifier(c) ==
    CASE c = "Low" -> 0 [] c = "Medium" -> -5 [] c = "High" -> -10
ClaimConcernModifier(c) ==
    CASE c = "None" -> 0
      [] c = "Poor Lighting" -> -10
      [] c = "Suspicious Activity" -> -20
      [] c = "Technical Issues" -> -5
RECURSIVE SumOfModifiers(_)
SumOfModifiers(S) ==
    IF S = {} THEN 0
    ELSE LET c == CHOOSE x \in S : TRUE
         IN ClaimConcernModifier(c) + SumOfModifiers(S \ {c})
Unclamped(crowd, S) == 50 + ClaimCrowdModifier(crowd) + SumOfModifiers(S)
Clamp(x, lo, hi) == IF x < lo THEN lo ELSE IF x > hi THEN hi ELSE x

Submitted == web.run = "submit"

\* C5: the score of a submitted report is clamp(5.0 + crowd modifier + sum
\* of the concern modifiers, 1.0, 5.0), a function of the crowd level and
\* the set of concerns alone, whatever the order of the list; Low/{None} is
\* 5.0, High/{Suspicious Activity} 2.0, Medium/{Poor Lighting} 3.5.
C5_ScoreIsClampedSum ==
    Submitted =>
        LET r == web.report_data
        IN /\ r.safety_score =
                Clamp(Unclamped(r.crowd_level, Range(r.safety_concerns)), 10, 50)
           /\ (r.crowd_level = "Low" /\ r.safety_concerns = <<"None">>)
                => r.safety_score = 50
           /\ (r.crowd_level = "High" /\ r.safety_concerns = <<"Suspicious Activity">>)
                => r.safety_score = 20
           /\ (r.crowd_level = "Medium" /\ r.safety_concerns = <<"Poor Lighting">>)
                => r.safety_score = 35

\* two concerns chosen against the order of the options
C5_Witness ==
    /\ Submitted
    /\ web.report_data.crowd_level = "Medium"
    /\ web.report_data.safety_concerns = <<"Technical Issues", "Poor Lighting">>
    /\ web.report_data.safety_score = 30

\* C6: the score lies in [1.0, 5.0], and is exactly 1.0 when the sum of the
\* modifiers falls below 1.0.
C6_ScoreInRange ==
    Submitted =>
        LET r == web.report_data
        IN /\ 10 <= r.safety_score
           /\ r.safety_score <= 50
           /\ Unclamped(r.crowd_level, Range(r.safety_concerns)) < 10
                => r.safety_score = 10

\* all four concerns stacked on a High crowd: 5.0 - 1.0 - 3.5 = 0.5
C6_Witness ==
    /\ Submitted
    /\ web.report_data.crowd_level = "High"
    /\ Range(web.report_data.safety_concerns) = Concerns
    /\ web.report_data.safety_score = 10

\* C7 (as claimed): with no query engine, a web submit is confirmed without
\* analysis text and its record is stored; a bot session that supplied its
\* four inputs is Complete, confirmed without analysis, its record stored.
C7_NoEngineStoresAndConfirms ==
    ~query_engine =>
        /\ Submitted =>
            /\ web.success
            /\ web.analysis = <<>>
            /\ \E i \in DOMAIN reports :
                /\ reports[i].location = web.report_data.location
                /\ reports[i].timestamp = web.report_data.timestamp
        /\ \A k \in Keys :
            FourthSupplied(k) =>
                /\ state[k] = END
                /\ \E i \in DOMAIN reports : reports[i].location = conv[k][1]

\* the call of complete_report that the collaborator has not answered yet
Analysing == pending # <<>> /\ pending[1].handler = "complete_report"

\* C8 (as claimed): when the collaborator's call ends, by an answer or by
\* an error, the waiting session is Complete and its confirmation is sent.
C8_FailedQueryStillConfirms ==
    [][(Analysing /\ pending' = <<>>) =>
        LET k == pending[1].key
        IN /\ state'[k] = END
           /\ replies'[ChatOf(k)].kind = "confirmation"]_vars

\* the user whose step in a conversation this is
Acts(a) ==
    \E k \in Keys :
        UserOf(k) = a /\ (state'[k] # state[k] \/ conv'[k] # conv[k])

\* C9: a step of one user leaves every other user's step pointers and
\* partial record as they were, and a record emitted in the step of a user
\* is made of the values of this user's own partial record.
C9_ActorsIsolated ==
    [][\A a \in Users :
        Acts(a) =>
            /\ \A k \in Keys : UserOf(k) # a => state'[k] = state[k]
            /\ \A b \in Users \ {a} : user_data'[b] = user_data[b]
            /\ Len(reports') > Len(reports) =>
                LET r == reports'[Len(reports')]
                IN /\ r.location = user_data[a]["location"]
                   /\ r.crowd_level = user_data[a]["crowd_level"]
                   /\ r.safety_concerns = user_data[a]["safety_concerns"]]_vars

\* a report stored by one user while the conversation of another, with a
\* different partial record, is under way
C9_Witness ==
    /\ Len(reports) = 1
    /\ state[<<1, 1>>] = END
    /\ Len(conv[<<1, 1>>]) = 4
    /\ state[<<77, 2>>] = SAFETY_CONCERNS
    /\ reports[1].location = conv[<<1, 1>>][1]
    /\ user_data[1]["location"] # user_data[2]["location"]

\* a session waiting for the additional info has taken three texts, each
\* of which set one of the three required fields, and no run of
\* complete_report missed one
FieldsSetBeforeLastStep ==
    /\ \A k \in Keys :
        state[k] = ADDITIONAL_INFO =>
            /\ RequiredKeys \subseteq DOMAIN user_data[UserOf(k)]
            /\ Len(conv[k]) >= 3
    /\ Len(reports) = clock

\* a query that carries a report, not the emergency question
ReportQueried ==
    /\ Len(queries') > Len(queries)
    /\ queries'[Len(queries')] # EmergencyQuery

\* a record reaches the store or the collaborator only in the step that
\* takes the fourth text of a session whose three fields are set
EmittedOnlyWhenSet ==
    (Len(reports') > Len(reports) \/ ReportQueried) =>
        \E k \in Keys :
            LET d == user_data[UserOf(k)]
            IN /\ Supplies(k)
               /\ state[k] = ADDITIONAL_INFO
               /\ RequiredKeys \subseteq DOMAIN d
               /\ reports' = Append(reports,
                      [location |-> d["location"],
                       crowd_level |-> d["crowd_level"],
                       safety_concerns |-> d["safety_concerns"],
                       timestamp |-> clock'])
               /\ ReportQueried =>
                      queries' = Append(queries,
                          [location |-> d["location"],
                           crowd_level |-> d["crowd_level"],
                           safety_concerns |-> d["safety_concerns"]])

\* C10: a record becomes visible to the store or the collaborator only
\* when location, crowd level and safety concern have been set in the
\* session that emits it; no session reaches the last step, or Complete,
\* with one of them missing.
C10_RequiredFieldsSet ==
    []FieldsSetBeforeLastStep /\ [][EmittedOnlyWhenSet]_vars

\* a report stored by one conversation, after /cancel was tried in it,
\* while a second conversation has been started
C10_Witness ==
    /\ Len(reports) = 1
    /\ nstarts = 2
    /\ ncommands = 1
    /\ \E k \in Keys : state[k] = END /\ Len(conv[k]) = 4

\* C11 (as claimed): the step that ends a session destroys the session
\* state: nothing of the finished report (location, crowd level, concern,
\* additional info, timestamp) remains in the session's partial record;
\* and once /cancel has been handled the partial record is empty.
C11_SessionDestroyed ==
    /\ [](\A k \in Keys : cancelled = <<k>> => DOMAIN user_data[UserOf(k)] = {})
    /\ [][\A k \in Keys :
           (state[k] \in States /\ state'[k] = END) =>
               DOMAIN user_data'[UserOf(k)] = {}]_vars

\* C12 (as claimed): the safety concerns of a report submitted through the
\* web form never hold "None" together with another concern.
C12_NoneExcludesOthers ==
    Submitted =>
        LET S == Range(web.report_data.safety_concerns)
        IN "None" \in S => S = {"None"}

\* C13 (as claimed): every report the bot stores carries a safety score,
\* the score function applied to the report's crowd level and concerns.
C13_ReportsCarryScore ==
    \A i \in DOMAIN reports :
        /\ "safety_score" \in DOMAIN reports[i]
        /\ reports[i]["safety_score"] = calculate_safety_score(reports[i])

\* C14 (as claimed): a session whose fourth input has been taken, and
\* whose analysis call is under way, eventually receives its confirmation
\* and reaches Complete, also when the collaborator never answers.
C14_EventuallyConfirmed ==
    \A k \in Keys :
        (Analysing /\ pending[1].key = k) ~>
            (replies[ChatOf(k)].kind = "confirmation" /\ state[k] = END)

\* the store changes only in the step that takes a fourth text, and then
\* by one record added at its end
AppendOnly ==
    \/ reports' = reports
    \/ /\ \E k \in Keys : Supplies(k) /\ state[k] = ADDITIONAL_INFO
       /\ Len(reports') = Len(reports) + 1
       /\ SubSeq(reports', 1, Len(reports)) = reports

\* C15 (as claimed): the store is append-only, only the step of
\* complete_report changes it, and it holds one record for each completed
\* conversation: never more records than conversations were started.
C15_AppendOnlyOnePerConversation ==
    [](Len(reports) <= nstarts) /\ [][AppendOnly]_vars

\* while the analysis call is under way its report is the last of the store
\* and its query the last sent
StoredBeforeAnalysis ==
    Analysing =>
        /\ reports # <<>>
        /\ reports[Len(reports)] = pending[1].report
        /\ queries # <<>>
        /\ queries[Len(queries)] = AnalysisQuery(pending[1].report)

\* a confirmation names a report of the store
ConfirmedIsStored ==
    \A c \in Chats :
        replies[c].kind = "confirmation" =>
            \E i \in DOMAIN reports :
                /\ reports[i]["location"] = replies[c].location
                /\ reports[i]["crowd_level"] = replies[c].crowd_level
                /\ reports[i]["safety_concerns"] = replies[c].safety_concerns

\* the step that ends an analysis call leaves the store as it is, with the
\* report of the call in it, whether the call returned or raised
AnalysisKeepsReport ==
    (Analysing /\ pending' = <<>>) =>
        /\ reports' = reports
        /\ pending[1].report \in Range(reports')

\* C16: complete_report stores, then asks for the analysis, then confirms:
\* a report under analysis and a report confirmed are in the store, and a
\* failed analysis call does not take its report out of the store.
C16_StoreAnalysisConfirmation ==
    [](StoredBeforeAnalysis /\ ConfirmedIsStored) /\ [][AnalysisKeepsReport]_vars

\* one report confirmed and another, whose analysis call raised, both stored
C16_Witness ==
    /\ pending = <<>>
    /\ Len(reports) = 2
    /\ state[<<1, 1>>] = END
    /\ replies[1].kind = "confirmation"
    /\ state[<<77, 2>>] = ADDITIONAL_INFO
    /\ Len(conv[<<77, 2>>]) = 4
    /\ reports[2]["location"] = conv[<<77, 2>>][1]
    /\ reports[1]["location"] # reports[2]["location"]

\* the record stored in a step is made of the first three texts of the
\* conversation that step belongs to
StoredFromThisConversation ==
    \A k \in Keys :
        (Supplies(k) /\ Len(reports') = Len(reports) + 1) =>
            reports'[Len(reports')] =
                [location |-> conv[k][1],
                 crowd_level |-> conv[k][2],
                 safety_concerns |-> <<conv[k][3]>>,
                 timestamp |-> clock']

\* C17 (as claimed): location, crowd level and safety concern of every
\* stored report are the values supplied in the conversation that stored
\* it, never values another conversation of the same user left in
\* user_data.
C17_NoStaleValue ==
    [][StoredFromThisConversation]_vars
====
